---- MODULE Spec2Model ----
(***************************************************************************)
(* Model of the ranger package: RangedSource.PreloadingReader (ordered     *)
(* concurrent fetch into an io.Pipe through a conc stream),                *)
(* RangedSource.ReadAt / Reader (random access over the chunk plan) and    *)
(* the ChannellingReader (ordered stream multiplexer).                     *)
(***************************************************************************)
EXTENDS Integers, Sequences, FiniteSets, TLC

\* ------------------------------------------------------------------ bounds
MaxChunks == 4
MaxWorkers == 2

VARIABLES
    \* --- PreloadingReader run (remotechunk.go 58-94)
    numChunks,    \* len(rs.chunks)
    maxG,         \* n, the worker limit handed to WithMaxGoroutines
    loadOk,       \* loadOk[i]: whether chunk i's Load returns without error
    cancelled,    \* the captured local `cancelled`
    dpc,          \* position of the dispatch loop (caller's goroutine)
    di,           \* plan position the dispatch loop is at (1-based)
    queue,        \* s.queue: the stream's FIFO of callback channels
    queueClosed,  \* close(s.queue) done by s.Wait
    task,         \* task[i]: "new" | "started" | "loading" | "done"
    callback,     \* callback[i]: "none" | "write" | "fail" | "close" | "ran"
    spawned,      \* worker goroutines of the pool
    cbpc,         \* position of the stream's callbacker goroutine
    cbcur,        \* plan position whose callback the callbacker handles
    wbuf,         \* bytes of the pending w.Write not yet taken by the reader
    werr,         \* the pipe's stored close error (onceError)
    closeCalls,   \* number of Close/CloseWithError calls made on w
    clpc,         \* position of the goroutine of lines 89-92
    delivered,    \* bytes the consumer has read from r
    consumerEnd,  \* what the consumer's last Read reported
    reordered,    \* history: some Load returned before a lower position's
    \* --- RangedSource random access (remotechunk.go 9-56, 96-111)
    rsLength,     \* rs.length
    rsChunkSize,  \* rs.ranger.chunkSize
    failAt,       \* index of the chunk whose Load fails, -1 when none does
    raCall,       \* the last call made: [op, off, size]
    raRes,        \* what it returned: [n, err, p, loads]
    secOff,       \* cursor of the SectionReader handed out by Reader()
    \* --- ChannellingReader (ordered stream multiplexer)
    muxCap,       \* capacity given to NewChannellingReader
    readers,      \* sub-streams admitted and not yet taken by the consumer
    muxHas,       \* whether the consumer holds a current sub-stream
    muxCur,       \* unread bytes of the current sub-stream
    muxOut,       \* bytes the consumer has read from the multiplexer
    muxEOF,       \* the consumer's last Read reported EOF
    finished,     \* Finish has been called
    admitted,     \* history: the sub-streams in the order Send admitted them
    prodPc,       \* prodPc[p]: "idle" | "sending"
    prodNext,     \* prodNext[p]: number of the next sub-stream p sends
    \* --- NewRequestWithContext and Do (unnamed/part_001 171-301)
    doIn,         \* the caller's arguments and what the server answers
    doPc,         \* "idle" | "start" | "built" | "returned" | "fetching" | "done"
    doOut,        \* what the last call returned: [err, resp]
    doSide,       \* concurrent work started: [pipe, pool, fetch]
    doBody,       \* bytes written to the response body's pipe so far
    doNext        \* plan position fetchChunks writes next (1-based)

pipeVars == <<numChunks, maxG, loadOk, cancelled, dpc, di, queue, queueClosed,
              task, callback, spawned, cbpc, cbcur, wbuf, werr, closeCalls,
              clpc, delivered, consumerEnd, reordered>>

raVars == <<rsLength, rsChunkSize, failAt, raCall, raRes, secOff>>

muxVars == <<muxCap, readers, muxHas, muxCur, muxOut, muxEOF, finished,
             admitted, prodPc, prodNext>>

doVars == <<doIn, doPc, doOut, doSide, doBody, doNext>>

vars == <<pipeVars, raVars, muxVars, doVars>>

\* ------------------------------------------------------------ pure helpers
IsPrefix(s, t) == Len(s) <= Len(t) /\ SubSeq(t, 1, Len(s)) = s

Min(a, b) == IF a <= b THEN a ELSE b

\* The bytes chunk i's Load returns: byte j of chunk i is <<i, j>>; odd plan
\* positions carry two bytes, even ones a single byte.
DataLen(i) == IF i % 2 = 1 THEN 2 ELSE 1

Data(i) == [j \in 1..DataLen(i) |-> <<i, j>>]

\* Concatenation of the loaded bytes of chunks 1..k in plan order.
RECURSIVE ConcatTo(_)
ConcatTo(k) == IF k = 0 THEN <<>> ELSE ConcatTo(k - 1) \o Data(k)

\* Pipe close errors.
NoErr == <<"none", 0>>
EOFErr == <<"EOF", 0>>
LoadErr(i) == <<"err", i>>

\* ------------------------------------------------- conc stream and io.Pipe
\* make(chan callbackCh, MaxGoroutines()+1): capacity of s.queue.
QueueCap_Larger(n) == n + 2

QueueCap(n) == n + 1

\* s.queue <- ch appends at the tail; the callbacker receives from the head.
Enqueue_LIFO(q, i) == <<i>> \o q

Enqueue(q, i) == Append(q, i)

\* A racing read of `cancelled` (no synchronisation orders it after the
\* callbacker's write): it yields the old value or the current one.
ReadCancelled == {FALSE, cancelled}

\* Number of tasks a pool worker is executing.
Busy == Cardinality({i \in 1..numChunks : task[i] \in {"started", "loading"}})

\* Loads that have started and not yet returned.
InFlight == {i \in 1..numChunks : task[i] = "loading"}

\* pool.Go with a limiter: either a new worker may be spawned (limiter has
\* room) or an existing idle worker accepts the task.
MaySpawn_Unlimited(n) == TRUE

MaySpawn(n) == spawned < n

IdleWorker == Busy < spawned

\* The callback the task returns after chunk.Load.
TaskResult_AlwaysWrite(ok) == "write"

TaskResult(ok) == IF ok THEN "write" ELSE "fail"

\* onceError.Store: the first stored error is kept.
StoreErr_Overwrite(old, new) == new

StoreErr(old, new) == IF old = NoErr THEN new ELSE old

\* PipeWriter.Write proceeds only while the pipe is open.
WriteAccepted(e) == e = NoErr

\* ------------------------------------------------------------------- Init
\* No RangedSource call has been made.
NoCall == [op |-> "none", off |-> 0, size |-> 0]

NoRes == [n |-> 0, err |-> "none", p |-> <<>>, loads |-> <<>>]

RaIdle ==
    /\ rsLength = 0
    /\ rsChunkSize = 1
    /\ failAt = -1
    /\ raCall = NoCall
    /\ raRes = NoRes
    /\ secOff = 0

\* No ChannellingReader is in use.
MuxIdle ==
    /\ muxCap = 0
    /\ readers = <<>>
    /\ muxHas = FALSE
    /\ muxCur = <<>>
    /\ muxOut = <<>>
    /\ muxEOF = FALSE
    /\ finished = FALSE
    /\ admitted = <<>>
    /\ prodPc = <<>>
    /\ prodNext = <<>>

\* No request is being made.
NoSide == [pipe |-> FALSE, pool |-> FALSE, fetch |-> FALSE]

NoResp == [kind |-> "none", contentLength |-> 0, contentRange |-> <<>>,
           chunks |-> <<>>]

NoOut == [err |-> "none", resp |-> NoResp]

DoIdle ==
    /\ doIn = <<>>
    /\ doPc = "idle"
    /\ doOut = NoOut
    /\ doSide = NoSide
    /\ doBody = <<>>
    /\ doNext = 1

Init ==
    /\ RaIdle
    /\ MuxIdle
    /\ DoIdle
    /\ numChunks \in 0..MaxChunks
    /\ maxG \in 1..MaxWorkers
    /\ loadOk \in [1..numChunks -> BOOLEAN]
    /\ cancelled = FALSE
    /\ dpc = "check"
    /\ di = 1
    /\ queue = <<>>
    /\ queueClosed = FALSE
    /\ task = [i \in 1..numChunks |-> "new"]
    /\ callback = [i \in 1..numChunks |-> "none"]
    /\ spawned = 0
    /\ cbpc = "idle"
    /\ cbcur = 0
    /\ wbuf = <<>>
    /\ werr = NoErr
    /\ closeCalls = 0
    /\ clpc = "none"
    /\ delivered = <<>>
    /\ consumerEnd = NoErr
    /\ reordered = FALSE

\* ------------------------------------------------------- dispatch loop
\* for _, chunk := range rs.chunks { if cancelled { break } ...
DispCheck ==
    /\ dpc = "check"
    /\ \E c \in ReadCancelled :
          IF di > numChunks \/ c
          THEN /\ dpc' = "returned"
               /\ clpc' = "poolwait"
          ELSE /\ dpc' = "enqueue"
               /\ clpc' = clpc
    /\ UNCHANGED <<doVars, raVars, muxVars, numChunks, maxG, loadOk, cancelled, di, queue, queueClosed,
                   task, callback, spawned, cbpc, cbcur, wbuf, werr,
                   closeCalls, delivered, consumerEnd, reordered>>

\* s.Go, first half: s.queue <- ch (blocks while the queue is full).
DispEnqueue ==
    /\ dpc = "enqueue"
    /\ Len(queue) < QueueCap(maxG)
    /\ queue' = Enqueue(queue, di)
    /\ dpc' = "submit"
    /\ UNCHANGED <<doVars, raVars, muxVars, numChunks, maxG, loadOk, cancelled, di, queueClosed, task,
                   callback, spawned, cbpc, cbcur, wbuf, werr, closeCalls,
                   clpc, delivered, consumerEnd, reordered>>

\* s.Go, second half: s.pool.Go(task) hands the task to a worker.
DispSubmit ==
    /\ dpc = "submit"
    /\ \/ /\ MaySpawn(maxG)
          /\ spawned' = spawned + 1
       \/ /\ IdleWorker
          /\ spawned' = spawned
    /\ task' = [task EXCEPT ![di] = "started"]
    /\ di' = di + 1
    /\ dpc' = "check"
    /\ UNCHANGED <<doVars, raVars, muxVars, numChunks, maxG, loadOk, cancelled, queue, queueClosed,
                   callback, cbpc, cbcur, wbuf, werr, closeCalls, clpc,
                   delivered, consumerEnd, reordered>>

\* ------------------------------------------------------------ worker task
\* if cancelled { return func() { _ = w.Close() } }
TaskCheck(i) ==
    /\ task[i] = "started"
    /\ \E c \in ReadCancelled :
          IF c
          THEN /\ task' = [task EXCEPT ![i] = "done"]
               /\ callback' = [callback EXCEPT ![i] = "close"]
          ELSE /\ task' = [task EXCEPT ![i] = "loading"]
               /\ callback' = callback
    /\ UNCHANGED <<doVars, raVars, muxVars, numChunks, maxG, loadOk, cancelled, dpc, di, queue,
                   queueClosed, spawned, cbpc, cbcur, wbuf, werr, closeCalls,
                   clpc, delivered, consumerEnd, reordered>>

\* data, err := chunk.Load() returns; the callback goes down the task's channel.
TaskLoad(i) ==
    /\ task[i] = "loading"
    /\ task' = [task EXCEPT ![i] = "done"]
    /\ callback' = [callback EXCEPT ![i] = TaskResult(loadOk[i])]
    /\ reordered' = (reordered \/
                     \E j \in 1..(i - 1) : task[j] \in {"started", "loading"})
    /\ UNCHANGED <<doVars, raVars, muxVars, numChunks, maxG, loadOk, cancelled, dpc, di, queue,
                   queueClosed, spawned, cbpc, cbcur, wbuf, werr, closeCalls,
                   clpc, delivered, consumerEnd>>

\* ------------------------------------------------------------- callbacker
\* for callbackCh := range s.queue
CbTake ==
    /\ cbpc = "idle"
    /\ queue # <<>>
    /\ cbcur' = Head(queue)
    /\ queue' = Tail(queue)
    /\ cbpc' = "wait"
    /\ UNCHANGED <<doVars, raVars, muxVars, numChunks, maxG, loadOk, cancelled, dpc, di, queueClosed,
                   task, callback, spawned, wbuf, werr, closeCalls, clpc,
                   delivered, consumerEnd, reordered>>

\* callback := <-callbackCh; callback(): a Write callback.
CbWrite ==
    /\ cbpc = "wait"
    /\ callback[cbcur] = "write"
    /\ IF WriteAccepted(werr)
       THEN /\ wbuf' = Data(cbcur)
            /\ cbpc' = "writing"
            /\ callback' = callback
       ELSE /\ wbuf' = wbuf
            /\ cbpc' = "idle"
            /\ callback' = [callback EXCEPT ![cbcur] = "ran"]
    /\ UNCHANGED <<doVars, raVars, muxVars, numChunks, maxG, loadOk, cancelled, dpc, di, queue,
                   queueClosed, task, spawned, cbcur, werr, closeCalls, clpc,
                   delivered, consumerEnd, reordered>>

\* w.Write returns once the reader has taken every byte.
CbWriteReturn ==
    /\ cbpc = "writing"
    /\ wbuf = <<>>
    /\ cbpc' = "idle"
    /\ callback' = [callback EXCEPT ![cbcur] = "ran"]
    /\ UNCHANGED <<doVars, raVars, muxVars, numChunks, maxG, loadOk, cancelled, dpc, di, queue,
                   queueClosed, task, spawned, cbcur, wbuf, werr, closeCalls,
                   clpc, delivered, consumerEnd, reordered>>

\* The failure callback, first statement: _ = w.CloseWithError(err).
CbFail ==
    /\ cbpc = "wait"
    /\ callback[cbcur] = "fail"
    /\ werr' = StoreErr(werr, LoadErr(cbcur))
    /\ closeCalls' = closeCalls + 1
    /\ cbpc' = "setcancel"
    /\ UNCHANGED <<doVars, raVars, muxVars, numChunks, maxG, loadOk, cancelled, dpc, di, queue,
                   queueClosed, task, callback, spawned, cbcur, wbuf, clpc,
                   delivered, consumerEnd, reordered>>

\* The failure callback, second statement: cancelled = true.
CbSetCancelled ==
    /\ cbpc = "setcancel"
    /\ cancelled' = TRUE
    /\ cbpc' = "idle"
    /\ callback' = [callback EXCEPT ![cbcur] = "ran"]
    /\ UNCHANGED <<doVars, raVars, muxVars, numChunks, maxG, loadOk, dpc, di, queue, queueClosed, task,
                   spawned, cbcur, wbuf, werr, closeCalls, clpc, delivered,
                   consumerEnd, reordered>>

\* The callback of a task that saw cancelled: _ = w.Close().
CbClose ==
    /\ cbpc = "wait"
    /\ callback[cbcur] = "close"
    /\ werr' = StoreErr(werr, EOFErr)
    /\ closeCalls' = closeCalls + 1
    /\ cbpc' = "idle"
    /\ callback' = [callback EXCEPT ![cbcur] = "ran"]
    /\ UNCHANGED <<doVars, raVars, muxVars, numChunks, maxG, loadOk, cancelled, dpc, di, queue,
                   queueClosed, task, spawned, cbcur, wbuf, clpc, delivered,
                   consumerEnd, reordered>>

\* The range over s.queue ends once the queue is closed and drained.
CbExit ==
    /\ cbpc = "idle"
    /\ queue = <<>>
    /\ queueClosed
    /\ cbpc' = "exited"
    /\ UNCHANGED <<doVars, raVars, muxVars, numChunks, maxG, loadOk, cancelled, dpc, di, queue,
                   queueClosed, task, callback, spawned, cbcur, wbuf, werr,
                   closeCalls, clpc, delivered, consumerEnd, reordered>>

\* ------------------------------------------- go func() { s.Wait(); w.Close() }
\* s.Wait: s.pool.Wait() returns when every worker has exited, then
\* close(s.queue).
ClPoolWait ==
    /\ clpc = "poolwait"
    /\ Busy = 0
    /\ queueClosed' = TRUE
    /\ clpc' = "cbwait"
    /\ UNCHANGED <<doVars, raVars, muxVars, numChunks, maxG, loadOk, cancelled, dpc, di, queue, task,
                   callback, spawned, cbpc, cbcur, wbuf, werr, closeCalls,
                   delivered, consumerEnd, reordered>>

\* s.Wait returning without waiting for the callbacker.
ClWaitReturn_Early ==
    /\ clpc = "cbwait"
    /\ clpc' = "close"
    /\ UNCHANGED <<doVars, raVars, muxVars, numChunks, maxG, loadOk, cancelled, dpc, di, queue,
                   queueClosed, task, callback, spawned, cbpc, cbcur, wbuf,
                   werr, closeCalls, delivered, consumerEnd, reordered>>

\* s.Wait: s.callbackerHandle.Wait() returns when the callbacker has exited.
ClWaitReturn ==
    /\ clpc = "cbwait"
    /\ cbpc = "exited"
    /\ clpc' = "close"
    /\ UNCHANGED <<doVars, raVars, muxVars, numChunks, maxG, loadOk, cancelled, dpc, di, queue,
                   queueClosed, task, callback, spawned, cbpc, cbcur, wbuf,
                   werr, closeCalls, delivered, consumerEnd, reordered>>

\* _ = w.Close()
ClClose ==
    /\ clpc = "close"
    /\ werr' = StoreErr(werr, EOFErr)
    /\ closeCalls' = closeCalls + 1
    /\ clpc' = "done"
    /\ UNCHANGED <<doVars, raVars, muxVars, numChunks, maxG, loadOk, cancelled, dpc, di, queue,
                   queueClosed, task, callback, spawned, cbpc, cbcur, wbuf,
                   delivered, consumerEnd, reordered>>

\* --------------------------------------------------------------- consumer
\* A Read of sz bytes on the reader PreloadingReader returned: a closed pipe
\* reports its error; otherwise the read takes bytes of the pending Write.
ConsumerRead(sz) ==
    /\ dpc = "returned"
    /\ consumerEnd = NoErr
    /\ IF werr # NoErr
       THEN /\ consumerEnd' = werr
            /\ UNCHANGED <<wbuf, delivered>>
       ELSE /\ cbpc = "writing"
            /\ wbuf # <<>>
            /\ delivered' = delivered \o SubSeq(wbuf, 1, Min(sz, Len(wbuf)))
            /\ wbuf' = SubSeq(wbuf, Min(sz, Len(wbuf)) + 1, Len(wbuf))
            /\ consumerEnd' = consumerEnd
    /\ UNCHANGED <<doVars, raVars, muxVars, numChunks, maxG, loadOk, cancelled, dpc, di, queue,
                   queueClosed, task, callback, spawned, cbpc, cbcur, werr,
                   closeCalls, clpc, reordered>>

Next ==
    \/ DispCheck
    \/ DispEnqueue
    \/ DispSubmit
    \/ \E i \in 1..numChunks : TaskCheck(i)
    \/ \E i \in 1..numChunks : TaskLoad(i)
    \/ CbTake
    \/ CbWrite
    \/ CbWriteReturn
    \/ CbFail
    \/ CbSetCancelled
    \/ CbClose
    \/ CbExit
    \/ ClPoolWait
    \/ ClWaitReturn
    \/ ClClose
    \/ \E sz \in 1..2 : ConsumerRead(sz)

Spec == Init /\ [][Next]_vars

\* ----------------------------------------------------- pipeline properties
AllOk == \A i \in 1..numChunks : loadOk[i]

\* Lowest plan position whose Load fails (used only when one exists).
FirstFail ==
    CHOOSE k \in 1..numChunks : ~loadOk[k] /\ \A j \in 1..(k - 1) : loadOk[j]

\* Chunks whose payload is loaded and whose Write has not yet returned.
Held == {i \in 1..numChunks : callback[i] = "write"}

\* C1: when every Load succeeds, for every worker limit and completion order,
\* what the consumer has read is always a prefix of the concatenation of the
\* chunks' bytes in plan order, it never sees an error, and at end-of-stream
\* it has read exactly that concatenation.
C1_OrderedDelivery ==
    AllOk =>
        /\ IsPrefix(delivered, ConcatTo(numChunks))
        /\ consumerEnd \in {NoErr, EOFErr}
        /\ (consumerEnd = EOFErr => delivered = ConcatTo(numChunks))

C1_Witness ==
    /\ AllOk
    /\ numChunks >= 3
    /\ maxG >= 2
    /\ reordered
    /\ consumerEnd = EOFErr

\* C2: when k is the lowest failing plan position, the consumer's bytes are
\* always a prefix of chunks 1..k-1, the only terminal indication it can see
\* is chunk k's error (never a clean end-of-stream, never a later chunk's
\* error), and when it sees it, it has read exactly chunks 1..k-1.
C2_FailurePrefix ==
    (~AllOk) =>
        /\ IsPrefix(delivered, ConcatTo(FirstFail - 1))
        /\ consumerEnd \in {NoErr, LoadErr(FirstFail)}
        /\ (consumerEnd # NoErr => delivered = ConcatTo(FirstFail - 1))

C2_Witness ==
    /\ ~AllOk
    /\ FirstFail >= 2
    /\ FirstFail < numChunks
    /\ reordered
    /\ \E j \in (FirstFail + 1)..numChunks : callback[j] = "ran"
    /\ consumerEnd = LoadErr(FirstFail)
    /\ delivered = ConcatTo(FirstFail - 1)

\* C3 as claimed: no run calls a close operation on the writer a second time.
C3_CloseAtMostOnce == closeCalls <= 1

\* C3 as amended: a run in which every Load succeeds calls a close operation
\* at most once; a failing run may call close again (the Close callbacks of
\* cancelled tasks and the Close after Wait), but the first close decides the
\* pipe's terminal state: once set, the stored error never changes.
C3_FirstCloseDecides ==
    [][ /\ (AllOk => closeCalls' <= 1)
        /\ (werr # NoErr => werr' = werr) ]_vars

C3_Witness ==
    /\ ~AllOk
    /\ closeCalls >= 3
    /\ clpc = "done"
    /\ werr = LoadErr(FirstFail)

\* C4: a run never ends up with nothing left to do before the consumer has
\* seen the terminal indication and the closing goroutine has closed the sink.
C4_Terminates ==
    \/ (consumerEnd # NoErr /\ clpc = "done")
    \/ ENABLED Next

\* C5: at most n Loads are in flight.
C5_InFlightBound == Cardinality(InFlight) <= maxG

C5_Witness ==
    /\ maxG >= 2
    /\ Cardinality(InFlight) = maxG
    /\ dpc = "submit"

MaxLength == 5
MaxChunkSize == 3
MaxBuf == 4

\* The pipeline part of the state when no PreloadingReader run is modelled.
PipeIdle ==
    /\ numChunks = 0
    /\ maxG = 1
    /\ loadOk = <<>>
    /\ cancelled = FALSE
    /\ dpc = "none"
    /\ di = 1
    /\ queue = <<>>
    /\ queueClosed = FALSE
    /\ task = <<>>
    /\ callback = <<>>
    /\ spawned = 0
    /\ cbpc = "none"
    /\ cbcur = 0
    /\ wbuf = <<>>
    /\ werr = NoErr
    /\ closeCalls = 0
    /\ clpc = "none"
    /\ delivered = <<>>
    /\ consumerEnd = NoErr
    /\ reordered = FALSE

\* The byte of the remote resource at offset j, and a buffer cell ReadAt has
\* not written.
ResByte(j) == 100 + j

Blank == 0

\* The resource bytes [off, off+k-1].
Resource(off, k) == [x \in 1..k |-> ResByte(off + x - 1)]

\* ranger.Ranges(length): chunk i covers [i*c, min((i+1)*c, L)-1].
NumRanges(L, c) == (L + c - 1) \div c

RangeFrom(i, c) == i * c

RangeTo(i, c, L) == Min((i + 1) * c, L) - 1

\* chunk.Load() of chunk i when it succeeds: the bytes of its range.
LoadData(i, c, L) ==
    Resource(RangeFrom(i, c), RangeTo(i, c, L) - RangeFrom(i, c) + 1)

\* rs.ranger.Index(offset)
Index(offset, c) == offset \div c

\* chunkOffset := offset % rs.ranger.chunkSize
ChunkOffset_Zero(offset, c) == 0

ChunkOffset(offset, c) == offset % c

\* copy(p[n:], chunkData[chunkOffset:]): the number of bytes copied and the
\* buffer afterwards.
Copied(p, n, chunkData, chunkOffset) ==
    Min(Len(p) - n, Len(chunkData) - chunkOffset)

CopyInto(p, n, chunkData, chunkOffset) ==
    [x \in 1..Len(p) |->
        IF x > n /\ x <= n + Copied(p, n, chunkData, chunkOffset)
        THEN chunkData[chunkOffset + (x - n)]
        ELSE p[x]]

\* The loop of ReadAt from the state (n, p, loads): loads lists the chunks
\* whose Load was invoked, in call order. err is "nil", "EOF", "loaderr" (the
\* error of a failed Load) or "panic" (a run-time panic: index out of range at
\* rs.chunks[chunkIndex], or slice bounds out of range at
\* chunkData[chunkOffset:]).
RECURSIVE ReadAtLoop(_, _, _, _, _, _, _)
ReadAtLoop(L, c, fail, p, off, n, loads) ==
    IF n >= Len(p)
    THEN [n |-> n, err |-> "nil", p |-> p, loads |-> loads]
    ELSE
      LET offset == n + off
          chunkIndex == Index(offset, c)
      IN
      IF chunkIndex >= NumRanges(L, c)
      THEN [n |-> n, err |-> "panic", p |-> p, loads |-> loads]
      ELSE IF chunkIndex = fail
      THEN [n |-> n, err |-> "loaderr", p |-> p,
            loads |-> Append(loads, chunkIndex)]
      ELSE
        LET chunkData == LoadData(chunkIndex, c, L)
            chunkOffset == ChunkOffset(offset, c)
            loaded == Append(loads, chunkIndex)
        IN
        IF chunkOffset > Len(chunkData)
        THEN [n |-> n, err |-> "panic", p |-> p, loads |-> loaded]
        ELSE IF Copied(p, n, chunkData, chunkOffset) = 0
        THEN [n |-> n, err |-> "EOF", p |-> p, loads |-> loaded]
        ELSE ReadAtLoop(L, c, fail,
                        CopyInto(p, n, chunkData, chunkOffset), off,
                        n + Copied(p, n, chunkData, chunkOffset), loaded)

\* ReadAt going on as if the failed Load had succeeded.
ReadAt_IgnoreFail(L, c, fail, size, off) ==
    ReadAtLoop(L, c, -1, [x \in 1..size |-> Blank], off, 0, <<>>)

\* rs.ReadAt(p, off) on a fresh buffer of `size` bytes.
ReadAt(L, c, fail, size, off) ==
    ReadAtLoop(L, c, fail, [x \in 1..size |-> Blank], off, 0, <<>>)

\* io.SectionReader.Read on the reader returned by rs.Reader(), that is
\* io.NewSectionReader(rs, 0, rs.length): past the limit it reports EOF
\* without calling ReadAt; otherwise it clips the buffer to the limit and
\* calls rs.ReadAt at the cursor.
SectionRead(L, c, fail, size, cursor) ==
    IF cursor >= L
    THEN [n |-> 0, err |-> "EOF", p |-> [x \in 1..size |-> Blank],
          loads |-> <<>>]
    ELSE
      LET r == ReadAt(L, c, fail, Min(size, L - cursor), cursor)
      IN [n |-> r.n, err |-> r.err,
          p |-> r.p \o [x \in 1..(size - Len(r.p)) |-> Blank],
          loads |-> r.loads]

\* NewRangedSource(length, loader, ranger) for a length, a chunk size and a
\* loader that fails on at most one chunk.
InitReadAt ==
    /\ PipeIdle
    /\ MuxIdle
    /\ DoIdle
    /\ rsLength \in 0..MaxLength
    /\ rsChunkSize \in 1..MaxChunkSize
    /\ failAt \in -1..(NumRanges(rsLength, rsChunkSize) - 1)
    /\ raCall = NoCall
    /\ raRes = NoRes
    /\ secOff = 0

\* A caller invokes rs.ReadAt(p, off) with len(p) = size.
DoReadAt(size, off) ==
    /\ raCall' = [op |-> "ReadAt", off |-> off, size |-> size]
    /\ raRes' = ReadAt(rsLength, rsChunkSize, failAt, size, off)
    /\ UNCHANGED <<doVars, pipeVars, muxVars, rsLength, rsChunkSize, failAt, secOff>>

\* A caller invokes Read(p) on the reader returned by rs.Reader().
DoRead(size) ==
    /\ raCall' = [op |-> "Read", off |-> secOff, size |-> size]
    /\ raRes' = SectionRead(rsLength, rsChunkSize, failAt, size, secOff)
    /\ secOff' = secOff + raRes'.n
    /\ UNCHANGED <<doVars, pipeVars, muxVars, rsLength, rsChunkSize, failAt>>

\* A caller invokes Seek(pos, io.SeekStart) on that reader.
DoSeek(pos) ==
    /\ secOff' = pos
    /\ raCall' = [op |-> "Seek", off |-> pos, size |-> 0]
    /\ raRes' = NoRes
    /\ UNCHANGED <<doVars, pipeVars, muxVars, rsLength, rsChunkSize, failAt>>

NextReadAt ==
    \/ \E size \in 0..MaxBuf, off \in 0..(MaxLength + 1) : DoReadAt(size, off)
    \/ \E size \in 0..MaxBuf : DoRead(size)
    \/ \E pos \in 0..(MaxLength + 1) : DoSeek(pos)

SpecReadAt == InitReadAt /\ [][NextReadAt]_vars

\* C7: with every Load succeeding, a ReadAt whose span lies inside the
\* resource fills the whole buffer with the resource bytes of the span and
\* returns a nil error, also across chunk boundaries.
C7_ReadAtInside ==
    (/\ raCall.op = "ReadAt"
     /\ failAt = -1
     /\ raCall.off + raCall.size <= rsLength)
    => /\ raRes.n = raCall.size
       /\ raRes.err = "nil"
       /\ raRes.p = Resource(raCall.off, raCall.size)

C7_Witness ==
    /\ raCall.op = "ReadAt"
    /\ failAt = -1
    /\ raCall.off + raCall.size <= rsLength
    /\ raCall.off % rsChunkSize # 0
    /\ Len(raRes.loads) >= 3
    /\ raRes.err = "nil"
    /\ raRes.p = Resource(raCall.off, raCall.size)

\* C8: with every Load succeeding, a ReadAt whose buffer extends past the end
\* of a non-empty resource returns the bytes up to the end together with EOF.
C8_ReadAtPastEnd ==
    (/\ raCall.op = "ReadAt"
     /\ failAt = -1
     /\ rsLength >= 1
     /\ raCall.off < rsLength
     /\ rsLength < raCall.off + raCall.size)
    => /\ raRes.n = rsLength - raCall.off
       /\ raRes.err = "EOF"
       /\ SubSeq(raRes.p, 1, raRes.n) = Resource(raCall.off, raRes.n)

\* C9: with every Load succeeding, a read into a non-empty buffer at or past
\* the end of the resource returns 0 bytes and EOF, on the RangedSource
\* itself and through the reader returned by Reader().
C9_ZeroCopyEOF ==
    (/\ raCall.op \in {"ReadAt", "Read"}
     /\ failAt = -1
     /\ raCall.size >= 1
     /\ raCall.off >= rsLength)
    => /\ raRes.n = 0
       /\ raRes.err = "EOF"

\* The chunks whose byte range intersects the span [off, off+size-1].
SpanChunks(L, c, off, size) ==
    {i \in 0..(NumRanges(L, c) - 1) :
        /\ size >= 1
        /\ RangeFrom(i, c) <= off + size - 1
        /\ RangeTo(i, c, L) >= off}

\* The members of a set of consecutive chunk indices in increasing order.
InOrder(S) ==
    IF S = {}
    THEN <<>>
    ELSE LET lo == CHOOSE i \in S : \A j \in S : i <= j
         IN [k \in 1..Cardinality(S) |-> lo + k - 1]

\* C17: with every Load succeeding, a ReadAt call (also one that reaches the
\* end of the resource) invokes Load on exactly the chunks that intersect
\* its span, once each, in increasing plan order, and on no other chunk;
\* this holds for every call, whatever calls came before it.
C17_LoadsExactlySpan ==
    (raCall.op = "ReadAt" /\ failAt = -1)
    => raRes.loads = InOrder(SpanChunks(rsLength, rsChunkSize,
                                        raCall.off, raCall.size))

\* C18: when the Load of a chunk fails during ReadAt, the call returns that
\* error with n = the bytes copied from the chunks before it, p[0:n] holds
\* the resource bytes [off, off+n-1], the failed chunk was loaded once and
\* is the last chunk loaded.
C18_LoadFailure ==
    /\ (/\ raCall.op = "ReadAt"
        /\ failAt \in SpanChunks(rsLength, rsChunkSize, raCall.off,
                                 raCall.size))
       => /\ raRes.err = "loaderr"
          /\ raRes.loads =
                InOrder({i \in SpanChunks(rsLength, rsChunkSize, raCall.off,
                                          raCall.size) : i <= failAt})
          /\ raRes.n = IF RangeFrom(failAt, rsChunkSize) > raCall.off
                       THEN RangeFrom(failAt, rsChunkSize) - raCall.off
                       ELSE 0
    /\ (raCall.op = "ReadAt" /\ raRes.err = "loaderr")
       => /\ failAt >= 0
          /\ raRes.loads[Len(raRes.loads)] = failAt
          /\ \A k \in 1..(Len(raRes.loads) - 1) : raRes.loads[k] < failAt
          /\ SubSeq(raRes.p, 1, raRes.n) = Resource(raCall.off, raRes.n)
          /\ \A x \in (raRes.n + 1)..raCall.size : raRes.p[x] = Blank

C18_Witness ==
    /\ raCall.op = "ReadAt"
    /\ raRes.err = "loaderr"
    /\ raRes.n >= 2
    /\ Len(raRes.loads) >= 3
    /\ raCall.off % rsChunkSize # 0
    /\ raRes.n < raCall.size

\* ======================================================= ChannellingReader
\* Bounds of the multiplexer specification.
MaxProducers == 2
MaxStreams == 2
MaxCap == 2

Producers == 1..MaxProducers

\* Sub-stream s of producer p: byte j is <<p, s, j>>; lengths range over
\* 0, 1 and 2 bytes.
StreamLen(p, s) == (p + s) % 3

Stream(p, s) == [j \in 1..StreamLen(p, s) |-> <<p, s, j>>]

\* Concatenation of the bytes of a sequence of sub-streams.
RECURSIVE ConcatStreams(_)
ConcatStreams(q) ==
    IF q = <<>> THEN <<>>
    ELSE Stream(q[1][1], q[1][2]) \o ConcatStreams(Tail(q))

\* Admission of a sub-stream into the buffer: behind those already admitted.
Admit_InFront(q, x) == <<x>> \o q

Admit(q, x) == Append(q, x)

\* NewChannellingReader(capacity)
InitMux ==
    /\ PipeIdle
    /\ RaIdle
    /\ DoIdle
    /\ muxCap \in 0..MaxCap
    /\ readers = <<>>
    /\ muxHas = FALSE
    /\ muxCur = <<>>
    /\ muxOut = <<>>
    /\ muxEOF = FALSE
    /\ finished = FALSE
    /\ admitted = <<>>
    /\ prodPc = [p \in Producers |-> "idle"]
    /\ prodNext = [p \in Producers |-> 1]

\* Producer p calls Send(sub-stream).
SendCall(p) ==
    /\ ~finished
    /\ prodPc[p] = "idle"
    /\ prodNext[p] <= MaxStreams
    /\ prodPc' = [prodPc EXCEPT ![p] = "sending"]
    /\ UNCHANGED <<doVars, pipeVars, raVars, muxCap, readers, muxHas, muxCur, muxOut,
                   muxEOF, finished, admitted, prodNext>>

\* Send returns once the buffer has room for the sub-stream.
SendAdmit_NoBackpressure(p) ==
    /\ prodPc[p] = "sending"
    /\ readers' = Admit(readers, <<p, prodNext[p]>>)
    /\ admitted' = Append(admitted, <<p, prodNext[p]>>)
    /\ prodPc' = [prodPc EXCEPT ![p] = "idle"]
    /\ prodNext' = [prodNext EXCEPT ![p] = @ + 1]
    /\ UNCHANGED <<doVars, pipeVars, raVars, muxCap, muxHas, muxCur, muxOut, muxEOF,
                   finished>>

SendAdmit(p) ==
    /\ prodPc[p] = "sending"
    /\ Len(readers) < muxCap
    /\ readers' = Admit(readers, <<p, prodNext[p]>>)
    /\ admitted' = Append(admitted, <<p, prodNext[p]>>)
    /\ prodPc' = [prodPc EXCEPT ![p] = "idle"]
    /\ prodNext' = [prodNext EXCEPT ![p] = @ + 1]
    /\ UNCHANGED <<doVars, pipeVars, raVars, muxCap, muxHas, muxCur, muxOut, muxEOF,
                   finished>>

\* Send returns by handing the sub-stream to a consumer that waits with
\* nothing buffered (the only way a Send returns when the capacity is 0).
SendHandOff(p) ==
    /\ prodPc[p] = "sending"
    /\ readers = <<>>
    /\ ~muxHas
    /\ muxHas' = TRUE
    /\ muxCur' = Stream(p, prodNext[p])
    /\ admitted' = Append(admitted, <<p, prodNext[p]>>)
    /\ prodPc' = [prodPc EXCEPT ![p] = "idle"]
    /\ prodNext' = [prodNext EXCEPT ![p] = @ + 1]
    /\ UNCHANGED <<doVars, pipeVars, raVars, muxCap, readers, muxOut, muxEOF,
                   finished>>

\* Finish(): no Send is in progress and none is made afterwards.
Finish ==
    /\ ~finished
    /\ \A p \in Producers : prodPc[p] = "idle"
    /\ finished' = TRUE
    /\ UNCHANGED <<doVars, pipeVars, raVars, muxCap, readers, muxHas, muxCur, muxOut,
                   muxEOF, admitted, prodPc, prodNext>>

\* The consumer's Read, holding no current sub-stream: it takes the next
\* buffered one.
MuxTake ==
    /\ ~muxHas
    /\ readers # <<>>
    /\ muxHas' = TRUE
    /\ muxCur' = Stream(Head(readers)[1], Head(readers)[2])
    /\ readers' = Tail(readers)
    /\ UNCHANGED <<doVars, pipeVars, raVars, muxCap, muxOut, muxEOF, finished,
                   admitted, prodPc, prodNext>>

\* The consumer's Read of up to sz bytes from the current sub-stream; an
\* exhausted sub-stream is dropped.
MuxRead(sz) ==
    /\ muxHas
    /\ IF muxCur = <<>>
       THEN /\ muxHas' = FALSE
            /\ UNCHANGED <<muxCur, muxOut>>
       ELSE /\ muxOut' = muxOut \o SubSeq(muxCur, 1, Min(sz, Len(muxCur)))
            /\ muxCur' = SubSeq(muxCur, Min(sz, Len(muxCur)) + 1, Len(muxCur))
            /\ muxHas' = muxHas
    /\ UNCHANGED <<doVars, pipeVars, raVars, muxCap, readers, muxEOF, finished,
                   admitted, prodPc, prodNext>>

\* The consumer's Read after Finish with nothing buffered: EOF.
MuxReadEOF_Early ==
    /\ ~muxHas
    /\ readers = <<>>
    /\ muxEOF' = TRUE
    /\ UNCHANGED <<doVars, pipeVars, raVars, muxCap, readers, muxHas, muxCur, muxOut,
                   finished, admitted, prodPc, prodNext>>

MuxReadEOF ==
    /\ ~muxHas
    /\ readers = <<>>
    /\ finished
    /\ muxEOF' = TRUE
    /\ UNCHANGED <<doVars, pipeVars, raVars, muxCap, readers, muxHas, muxCur, muxOut,
                   finished, admitted, prodPc, prodNext>>

NextMux ==
    \/ \E p \in Producers : SendCall(p)
    \/ \E p \in Producers : SendAdmit(p)
    \/ \E p \in Producers : SendHandOff(p)
    \/ Finish
    \/ MuxTake
    \/ \E sz \in 1..2 : MuxRead(sz)
    \/ MuxReadEOF

SpecMux == InitMux /\ [][NextMux]_vars

\* C10: the bytes read so far, followed by the unread bytes of the current
\* sub-stream and the buffered sub-streams, are exactly the concatenation of
\* the sub-streams in admission order; the buffered ones are the latest
\* admitted, in admission order; and at EOF everything admitted has been read.
C10_OrderedConcat ==
    /\ muxOut \o muxCur \o ConcatStreams(readers) = ConcatStreams(admitted)
    /\ Len(readers) <= Len(admitted)
    /\ readers = SubSeq(admitted, Len(admitted) - Len(readers) + 1,
                        Len(admitted))
    /\ (muxEOF => muxOut = ConcatStreams(admitted))

C10_Witness ==
    /\ muxEOF
    /\ Len(admitted) = MaxProducers * MaxStreams
    /\ admitted[1][1] # admitted[2][1]
    /\ muxOut = ConcatStreams(admitted)

\* The multiplexer under fair scheduling: a consumer that keeps reading, and
\* a Send that returns when the buffer has room or the consumer waits for it.
FairSpecMux ==
    /\ SpecMux
    /\ WF_vars(MuxTake)
    /\ WF_vars(\E sz \in 1..2 : MuxRead(sz))
    /\ WF_vars(MuxReadEOF)
    /\ \A p \in Producers : WF_vars(SendAdmit(p)) /\ WF_vars(SendHandOff(p))

\* The consumer holds nothing and nothing is buffered.
Drained == ~muxHas /\ readers = <<>>

\* C11: the consumer sees EOF only after Finish, with every admitted
\* sub-stream read in full; before Finish a read with nothing buffered can
\* only wait for a Send; after Finish with everything drained the only
\* outcome of a read is EOF, again and again; and under fair scheduling a
\* reading consumer reaches EOF once Finish has been called.
C11_EOFAfterFinish ==
    /\ [](muxEOF => (finished /\ Drained
                     /\ muxOut = ConcatStreams(admitted)))
    /\ []((~finished /\ Drained) =>
            (~ENABLED MuxReadEOF /\ ~ENABLED MuxTake
             /\ ~ENABLED (\E sz \in 1..2 : MuxRead(sz))))
    /\ []((finished /\ Drained) =>
            (ENABLED MuxReadEOF /\ ~ENABLED MuxTake
             /\ ~ENABLED (\E sz \in 1..2 : MuxRead(sz))))
    /\ [][muxEOF => muxEOF']_vars
    /\ (finished ~> muxEOF)

C11_Witness ==
    /\ muxEOF
    /\ finished
    /\ Len(admitted) >= 3
    /\ muxOut = ConcatStreams(admitted)

\* C12: at most C sub-streams are admitted and not yet taken (none when
\* C = 0); a Send returns only when the buffer had room or the consumer was
\* waiting with nothing buffered; and under fair scheduling every Send that
\* is waiting eventually returns.
C12_Backpressure ==
    /\ [](Len(readers) <= muxCap)
    /\ [][\A p \in Producers :
            (prodPc[p] = "sending" /\ prodPc'[p] = "idle") =>
                (Len(readers) < muxCap \/ Drained)]_vars
    /\ \A p \in Producers : (prodPc[p] = "sending") ~> (prodPc[p] = "idle")

C12_Witness ==
    /\ muxCap >= 1
    /\ Len(readers) = muxCap
    /\ muxHas
    /\ \E p \in Producers : prodPc[p] = "sending"

\* ------------------------------------- PreloadingReader: cancellation
\* C15: once a failure is committed (CloseWithError done and cancelled set),
\* the dispatch loop's next check of cancelled ends the loop (no further
\* chunk is submitted), no task that starts afterwards goes on to Load, and
\* nothing more reaches the sink.
C15_FailFast ==
    [][cancelled =>
         /\ (dpc = "check" /\ dpc' # "check") => dpc' = "returned"
         /\ \A i \in 1..numChunks :
               (task[i] = "started" /\ task'[i] # "started")
                  => task'[i] = "done"
         /\ wbuf' = <<>>
         /\ delivered' = delivered]_vars

\* The callbacker is inside an operation on the writer (a Write waiting for
\* the reader; CloseWithError and Close complete in one step).
CbOnWriter == cbpc = "writing"

\* The closing goroutine is about to call, or has called, w.Close().
ClOnWriter == clpc \in {"close", "done"}

\* C16: at most one goroutine operates on the sink's writer at a time. Every
\* step that writes to or closes the writer is a step of the callbacker or
\* of the closing goroutine, never of a task or of the dispatch loop; the
\* callbacker runs the callbacks one at a time in plan order; the Close
\* after Wait happens only once the callbacker has exited.
C16_SingleWriter ==
    /\ [](~(CbOnWriter /\ clpc = "close"))
    /\ [](ClOnWriter => cbpc = "exited")
    /\ [][(werr' # werr \/ closeCalls' # closeCalls \/ Len(wbuf') > Len(wbuf))
            => /\ task' = task
               /\ dpc' = dpc
               /\ (cbpc \in {"wait"} /\ clpc' = clpc) \/
                  (clpc = "close" /\ cbpc' = cbpc)]_vars
    /\ [][cbcur' # cbcur => (cbcur' = cbcur + 1 /\ cbpc = "idle")]_vars

C16_Witness ==
    /\ clpc = "close"
    /\ cbpc = "exited"
    /\ closeCalls >= 1
    /\ Len(delivered) >= 1

\* C19: the write of cancelled by the failure callback is never pending at
\* the same time as an unordered read of cancelled by the dispatch loop or
\* by a task that is about to decide whether to Load.
C19_NoRace ==
    ~(/\ cbpc = "setcancel"
      /\ \/ dpc = "check"
         \/ \E i \in 1..numChunks : task[i] = "started")

\* ======================================== NewRequestWithContext and Do
\* Bound of the request specification: largest resource length.
MaxTotal == 3

\* The Range header of the request: absent, "bytes=s-", "bytes=s-e", an
\* unparsable value, or two specifiers.
RangeHeaders ==
    {[kind |-> "none", start |-> 0, end |-> 0],
     [kind |-> "garbage", start |-> 0, end |-> 0],
     [kind |-> "multi", start |-> 0, end |-> 0]}
    \cup {[kind |-> "open", start |-> a, end |-> 0] : a \in 0..MaxTotal}
    \cup {[kind |-> "closed", start |-> a, end |-> b] :
            a \in 0..MaxTotal, b \in 0..MaxTotal}

\* What the HEAD probe yields: a transport error, a response without
\* "Accept-Ranges: bytes", one with an unparsable Content-Length, or the
\* resource's total length.
ProbeOutcomes ==
    {[kind |-> k, total |-> 0] : k \in {"err", "norange", "badlen"}}
    \cup {[kind |-> "ok", total |-> t] : t \in 0..MaxTotal}

\* ParseRange(requestedRange, contentLength): the possible results, each
\* [err, ranges]; a range is [start, length]. Two specifiers are either
\* refused here or handed back as two ranges, which Do then refuses.
ParseRange(h, T) ==
    CASE h.kind = "none" -> {[err |-> FALSE, ranges |-> <<>>]}
      [] h.kind = "garbage" -> {[err |-> TRUE, ranges |-> <<>>]}
      [] h.kind = "multi" ->
            {[err |-> TRUE, ranges |-> <<>>],
             [err |-> FALSE,
              ranges |-> <<[start |-> 0, length |-> 1],
                           [start |-> 0, length |-> 1]>>]}
      [] h.kind = "open" ->
            IF h.start < T
            THEN {[err |-> FALSE,
                   ranges |-> <<[start |-> h.start,
                                 length |-> T - h.start]>>]}
            ELSE {[err |-> TRUE, ranges |-> <<>>]}
      [] h.kind = "closed" ->
            IF h.start <= h.end /\ h.start < T
            THEN {[err |-> FALSE,
                   ranges |-> <<[start |-> h.start,
                                 length |-> Min(h.end, T - 1) - h.start + 1]>>]}
            ELSE {[err |-> TRUE, ranges |-> <<>>]}

\* Chunks(chunkSize, 0, contentLength): consecutive pieces of chunkSize
\* bytes, the last one truncated.
Chunks(c, T) ==
    [i \in 1..NumRanges(T, c) |->
        [start |-> RangeFrom(i - 1, c),
         length |-> RangeTo(i - 1, c, T) - RangeFrom(i - 1, c) + 1]]

\* ByteRange.ContentRange(total): "bytes start-end/total".
ContentRange(r, T) == <<"bytes", r.start, r.start + r.length - 1, T>>

ContentRangeOk(r, T) == r.length >= 1 /\ r.start + r.length <= T

\* The checks of NewRequestWithContext on chunkSize and workers.
ValidConfig_NoWorkerCheck(chunkSize, workers) == chunkSize >= 1

ValidConfig(chunkSize, workers) == chunkSize >= 1 /\ workers >= 1

\* The ContentLength Do puts in the response: the single range's length, or
\* the probed total length.
RespContentLength_Total(ranges, T) == T

RespContentLength(ranges, T) ==
    IF Len(ranges) = 1 THEN ranges[1].length ELSE T

\* The Content-Range header Do sets (<<>> when it sets none).
RespContentRange(ranges, T) ==
    IF Len(ranges) = 1 THEN ContentRange(ranges[1], T) ELSE <<>>

Failed(e) == [out |-> [err |-> e, resp |-> NoResp], side |-> NoSide]

\* Do(c, r) for a non-nil request built with chunkSize and workers, given
\* the probe's outcome and ParseRange's result pr: what Do returns and the
\* concurrent work it has started when it returns.
DoOutcome(in, pr) ==
    IF in.method = "HEAD"
    THEN [out |-> [err |-> "nil", resp |-> [NoResp EXCEPT !.kind = "head"]],
          side |-> NoSide]
    ELSE IF in.probe.kind = "err" THEN Failed("probe")
    ELSE IF in.probe.kind = "norange" THEN Failed("range unsupported")
    ELSE IF in.probe.kind = "badlen" THEN Failed("content length")
    ELSE IF pr.err THEN Failed("parse range")
    ELSE IF Len(pr.ranges) > 1 THEN Failed("multiple ranges")
    ELSE IF Len(pr.ranges) = 1
            /\ ~ContentRangeOk(pr.ranges[1], in.probe.total)
    THEN Failed("content range")
    ELSE IF in.workers < 1
    THEN [out |-> [err |-> "panic", resp |-> NoResp],
          side |-> [pipe |-> TRUE, pool |-> FALSE, fetch |-> FALSE]]
    ELSE [out |->
            [err |-> "nil",
             resp |-> [kind |-> "ranged",
                       contentLength |-> RespContentLength(pr.ranges, in.probe.total),
                       contentRange |-> RespContentRange(pr.ranges, in.probe.total),
                       chunks |-> IF Len(pr.ranges) = 0
                                  THEN Chunks(in.chunkSize, in.probe.total)
                                  ELSE pr.ranges]],
          side |-> [pipe |-> TRUE, pool |-> TRUE, fetch |-> TRUE]]

InitDo ==
    /\ PipeIdle
    /\ RaIdle
    /\ MuxIdle
    /\ doIn \in [urlOk : BOOLEAN,
                 method : {"GET", "HEAD"},
                 chunkSize : 0..MaxChunkSize,
                 workers : 0..MaxWorkers,
                 range : RangeHeaders,
                 probe : ProbeOutcomes]
    /\ doPc = "start"
    /\ doOut = NoOut
    /\ doSide = NoSide
    /\ doBody = <<>>
    /\ doNext = 1

\* NewRequestWithContext(ctx, method, url, body, chunkSize, workers)
NewRequest ==
    /\ doPc = "start"
    /\ IF ~doIn.urlOk
       THEN doOut' = [err |-> "http", resp |-> NoResp] /\ doPc' = "returned"
       ELSE IF ~ValidConfig(doIn.chunkSize, doIn.workers)
       THEN doOut' = [err |-> "config", resp |-> NoResp] /\ doPc' = "returned"
       ELSE doOut' = NoOut /\ doPc' = "built"
    /\ UNCHANGED <<pipeVars, raVars, muxVars, doIn, doSide, doBody, doNext>>

\* Do(c, nil)
DoNil ==
    /\ doPc = "start"
    /\ doOut' = [err |-> "nil request", resp |-> NoResp]
    /\ doPc' = "returned"
    /\ UNCHANGED <<pipeVars, raVars, muxVars, doIn, doSide, doBody, doNext>>

\* Do(c, r) with the request NewRequestWithContext returned.
CallDo ==
    /\ doPc = "built"
    /\ \E pr \in ParseRange(doIn.range, doIn.probe.total) :
          /\ doOut' = DoOutcome(doIn, pr).out
          /\ doSide' = DoOutcome(doIn, pr).side
    /\ doPc' = IF doSide'.fetch THEN "fetching" ELSE "returned"
    /\ UNCHANGED <<pipeVars, raVars, muxVars, doIn, doBody, doNext>>

\* remoteFile.fetchChunks: the chunks' bytes reach the body in plan order.
FetchWrite ==
    /\ doPc = "fetching"
    /\ doNext <= Len(doOut.resp.chunks)
    /\ doBody' = doBody \o Resource(doOut.resp.chunks[doNext].start,
                                    doOut.resp.chunks[doNext].length)
    /\ doNext' = doNext + 1
    /\ UNCHANGED <<pipeVars, raVars, muxVars, doIn, doPc, doOut, doSide>>

\* remoteFile.fetchChunks: every chunk is written, the body ends.
FetchClose ==
    /\ doPc = "fetching"
    /\ doNext > Len(doOut.resp.chunks)
    /\ doPc' = "done"
    /\ UNCHANGED <<pipeVars, raVars, muxVars, doIn, doOut, doSide, doBody,
                   doNext>>

NextDo ==
    \/ NewRequest
    \/ DoNil
    \/ CallDo
    \/ FetchWrite
    \/ FetchClose

SpecDo == InitDo /\ [][NextDo]_vars

\* The request's Range header asks for something Do must refuse.
BadRange ==
    \/ doIn.range.kind \in {"garbage", "multi"}
    \/ doIn.range.kind = "closed" /\ doIn.range.start > doIn.range.end

DoFailed == doOut.err \notin {"none", "nil"}

\* C13: a configuration error (chunk size < 1, worker count < 1) is returned
\* by NewRequestWithContext, and a range error (start > end, unparsable, two
\* or more specifiers) by Do, to the caller directly; whenever construction
\* or Do has failed, no sink pipe and no worker pool exist, no fetch has been
\* dispatched and no response accompanies the error.
C13_SynchronousFailure ==
    /\ DoFailed =>
          /\ doPc = "returned"
          /\ doSide = NoSide
          /\ doOut.resp = NoResp
          /\ doBody = <<>>
    /\ (doPc # "start" /\ doOut.err # "nil request" /\ doIn.urlOk
        /\ (doIn.chunkSize < 1 \/ doIn.workers < 1))
          => doOut.err = "config"
    /\ (doPc \notin {"start", "built"} /\ doOut.err \notin {"nil request", "http", "config"}
        /\ doIn.method # "HEAD" /\ doIn.probe.kind = "ok" /\ BadRange)
          => doOut.err \in {"parse range", "multiple ranges"}

C13_Witness ==
    /\ doPc = "returned"
    /\ doOut.err = "multiple ranges"
    /\ doSide = NoSide

\* The range a single-range request resolves to over a resource of length T.
ResolvedStart == doIn.range.start

ResolvedEnd ==
    IF doIn.range.kind = "open"
    THEN doIn.probe.total - 1
    ELSE Min(doIn.range.end, doIn.probe.total - 1)

DoRanged == doOut.err = "nil" /\ doOut.resp.kind = "ranged"

\* C14: a successful chunked Do over a resource of length T. With a single
\* range resolving to {start, end}: content length end - start + 1,
\* content-range "bytes start-end/T", body the resource bytes start..end.
\* With no range: content length T, no content-range, body the whole
\* resource, fetched in pieces of chunkSize bytes (the last one shorter).
C14_ResponseShape ==
    DoRanged =>
       /\ doIn.range.kind \in {"open", "closed", "none"}
       /\ doIn.range.kind \in {"open", "closed"} =>
             /\ doOut.resp.contentLength = ResolvedEnd - ResolvedStart + 1
             /\ doOut.resp.contentRange =
                   <<"bytes", ResolvedStart, ResolvedEnd, doIn.probe.total>>
             /\ IsPrefix(doBody, Resource(ResolvedStart,
                                          ResolvedEnd - ResolvedStart + 1))
             /\ doPc = "done" =>
                   doBody = Resource(ResolvedStart,
                                     ResolvedEnd - ResolvedStart + 1)
       /\ doIn.range.kind = "none" =>
             /\ doOut.resp.contentLength = doIn.probe.total
             /\ doOut.resp.contentRange = <<>>
             /\ IsPrefix(doBody, Resource(0, doIn.probe.total))
             /\ doPc = "done" => doBody = Resource(0, doIn.probe.total)
             /\ \A i \in 1..Len(doOut.resp.chunks) :
                   /\ doOut.resp.chunks[i].start = (i - 1) * doIn.chunkSize
                   /\ doOut.resp.chunks[i].length =
                         Min(doIn.chunkSize,
                             doIn.probe.total - (i - 1) * doIn.chunkSize)
       /\ doPc = "done" => Len(doBody) = doOut.resp.contentLength

C14_Witness ==
    /\ DoRanged
    /\ doPc = "done"
    /\ doIn.range.kind = "open"
    /\ doIn.range.start = 1
    /\ doIn.probe.total = MaxTotal
    /\ Len(doBody) = MaxTotal - 1

====
